---- MODULE Spec2Model ----
(***************************************************************************)
(* Debate orchestration engine: the phase state machine of                 *)
(* DebateOrchestrator.runDebate, the start route that launches it, the     *)
(* per-turn generate/persist pipeline of TurnManager and the claim         *)
(* verification of FactCheckerAgent.                                       *)
(*                                                                         *)
(* Confidence values are scaled by 100 (0.8 is 80, 0.9 is 90, 0.5 is 50).  *)
(***************************************************************************)
EXTENDS Integers, Sequences, FiniteSets, TLC

\* ------------------------------------------------------------------ bounds
\* largest debate.config.maxTurns explored by the orchestrator
MaxTurnsBound == 5
\* largest maxTurns / turnNumber handed to getTurnType on its own
TurnTypeBound == 13
\* most claims a generated response carries
MaxClaims == 1
\* most elements of parsed.claims in a verifier response
MaxResults == 1
\* most turns of one debate whose generated response carries claims
MaxClaimTurns == 1
\* most store calls of one debate that return an error
MaxStoreFaults == 1
\* largest debate.config.maxTurns explored with two racing start requests
RaceTurnsBound == 2
\* largest debate.config.maxTurns explored with failing research lookups
ResearchTurnsBound == 3
\* largest debate.config.maxTurns explored with unparsable generation texts
ParseTurnsBound == 3
\* largest debate.config.maxTurns explored with a client watching, and most
\* deliveries of one INSERT notification
MaxHookTurns == 2
MaxDeliveries == 2
\* most alerts notified to useLieAlerts, and the seconds an alert's age is
\* followed for
MaxAlerts == 4
AlertClockCap == 7
\* most URLs enqueued to useAudioPlayer
MaxUrls == 3
\* number of voter sessions, and most POST requests to the vote route
MaxVoters == 2
MaxVotePosts == 3
\* most sources one research lookup returns
MaxSources == 1
\* largest debate.config.maxTurns explored with varying word counts
PacingTurnsBound == 4
\* largest word count handed to estimateDisplayTime on its own
MaxWords == 60

\* --------------------------------------------------------- program constants
\* fact-checker: is_lie threshold 0.8, scaled by 100
LieThreshold == 80
\* turn-manager: critical severity threshold 0.9, scaled by 100
CriticalThreshold == 90
\* fact-checker: confidence used when the response carries no number (0.5)
DefaultConfidence == 50
\* fact-checker: confidence of a fallback record
FallbackConfidence == 0
\* confidence is clamped to [0, 1], scaled by 100
ConfidenceMax == 100
\* showActiveAlert: the auto-clear timeout, in seconds
AutoClearSeconds == 5
\* estimateDisplayTime: assumed delivery rate, words per minute
WordsPerMinute == 150
\* estimateDisplayTime: floor of the display time, ms
DisplayFloorMs == 15000

\* ------------------------------------------------------------ getTurnType
\* a turn-type function that never answers 'conclusion' before the last turn
getTurnTypeLastOnly(turnNumber, maxTurns) ==
    IF turnNumber <= 2 THEN "intro"
    ELSE IF turnNumber >= maxTurns THEN "conclusion"
    ELSE "rebuttal"

\* a turn-type function that checks the closing range first
getTurnTypeClosingFirst(turnNumber, maxTurns) ==
    IF turnNumber >= maxTurns - 1 THEN "conclusion"
    ELSE IF turnNumber <= 2 THEN "intro"
    ELSE "rebuttal"

getTurnType(turnNumber, maxTurns) ==
    IF turnNumber <= 2 THEN "intro"
    ELSE IF turnNumber >= maxTurns - 1 THEN "conclusion"
    ELSE "rebuttal"

\* --------------------------------------------------- FactCheckerAgent parsing
\* JS undefined / null for a missing field of a parsed JSON object
Undefined == "<undefined>"

validVerdicts ==
    {"true", "mostly_true", "mixed", "mostly_false", "false", "unverifiable"}

\* String.prototype.toLowerCase on the verdict strings the model feeds in
ToLowerCase(s) ==
    CASE s = "FALSE" -> "false"
      [] s = "False" -> "false"
      [] s = " False " -> " false "
      [] s = "Mostly_False" -> "mostly_false"
      [] s = "MIXED" -> "mixed"
      [] s = "True" -> "true"
      [] OTHER -> s

\* String.prototype.trim on the verdict strings the model feeds in
Trim(s) ==
    CASE s = " false " -> "false"
      [] s = " False " -> "False"
      [] s = "mostly_true " -> "mostly_true"
      [] OTHER -> s

normalizeVerdict(verdict) ==
    LET normalized == Trim(ToLowerCase(verdict))
    IN  IF normalized \in validVerdicts THEN normalized ELSE "unverifiable"

Min(a, b) == IF a <= b THEN a ELSE b
Max(a, b) == IF a >= b THEN a ELSE b

\* a display time without the floor
estimateDisplayTimeNoFloor(wordCount) == (wordCount * 60 * 1000) \div WordsPerMinute

\* estimateDisplayTime, by the word count of the content: the code computes
\* (wordCount / 150) * 60 * 1000 in floating point, which is 400 ms per word
\* up to rounding in the last place
estimateDisplayTime(wordCount) ==
    Max((wordCount * 60 * 1000) \div WordsPerMinute, DisplayFloorMs)

\* confidence of one parsed claim: clamped when it is a number, 0.5 otherwise
ClaimConfidence(c) ==
    IF c.confIsNumber THEN Max(0, Min(ConfidenceMax, c.confidence))
    ELSE DefaultConfidence

\* a lie rule whose threshold is exclusive
IsLieStrict(confidence, verdict) ==
    confidence > LieThreshold /\ verdict \in {"false", "mostly_false"}

IsLie(confidence, verdict) ==
    confidence >= LieThreshold /\ verdict \in {"false", "mostly_false"}

\* one element of parsed.claims mapped to a FactCheckResult
ParseClaim(c) ==
    LET verdict == normalizeVerdict(IF c.verdict = Undefined THEN "unverifiable" ELSE c.verdict)
        confidence == ClaimConfidence(c)
    IN  [claim_text |-> c.claim_text,
         verdict |-> verdict,
         confidence |-> confidence,
         is_lie |-> IsLie(confidence, verdict)]

buildFallbackResults(claims) ==
    [i \in 1..Len(claims) |->
        [claim_text |-> claims[i],
         verdict |-> "unverifiable",
         confidence |-> FallbackConfidence,
         is_lie |-> FALSE]]

\* The verifier's raw text, by what JSON.parse makes of it:
\*   kind "nojson"  : no {...} in the text                     -> fallback
\*   kind "badjson" : a {...} match that does not parse either -> fallback
\*   kind "null"    : parses to null: parsed.claims throws a TypeError
\*   kind "json"    : parses to an object; claimsIsArray tells Array.isArray(parsed.claims);
\*                    an element may be null (isNull), and then c.verdict throws
\* the text gives no array of claim objects: it does not parse, parses to
\* null, parses to a value whose claims field is not an array, or the array
\* holds a null
StructurallyUnusable(raw) ==
    \/ raw.kind \in {"nojson", "badjson", "null"}
    \/ raw.kind = "json" /\ ~raw.claimsIsArray
    \/ /\ raw.kind = "json"
       /\ raw.claimsIsArray
       /\ \E i \in 1..Len(raw.claims) : raw.claims[i].isNull

ParseThrows(raw) ==
    \/ raw.kind = "null"
    \/ /\ raw.kind = "json"
       /\ raw.claimsIsArray
       /\ \E i \in 1..Len(raw.claims) : raw.claims[i].isNull

parseResponse(raw, originalClaims) ==
    IF raw.kind \in {"nojson", "badjson"} THEN buildFallbackResults(originalClaims)
    ELSE IF ~raw.claimsIsArray THEN <<>>
    ELSE [i \in 1..Len(raw.claims) |-> ParseClaim(raw.claims[i])]

\* runFactChecks: severity of the alert written for a lie
AlertSeverityLie(confidence) ==
    IF confidence >= LieThreshold THEN "critical" ELSE "warning"

AlertSeverity(confidence) ==
    IF confidence >= CriticalThreshold THEN "critical" ELSE "warning"

\* ------------------------------------------------------------------- state
VARIABLES
    \* debates row
    status, description, maxTurns,
    \* debate_agents rows of the debate, by role
    agentRoles,
    \* debate_turns (in insertion order), fact_checks, lie_alerts, debate_summaries
    debate_turns, fact_checks, lie_alerts, debate_summaries,
    \* start route, per request: position and the debate row it read
    reqPc, reqSeen,
    \* runDebate, per run (a run is started by the request of the same index)
    pc, pairStart, side, allTurns, allFactChecks, generated, curTurn,
    fcResults, fcTask, failed,
    \* environment: requests that arrive, which verifier responses are fed in,
    \* how many turns may carry claims, how many more store calls may return
    \* an error
    arrivals, inputs, claimTurnLimit, storeFaultsLeft,
    \* logs kept for the properties: turns (by id) whose generated response
    \* carried claims, and turns for which the verifier API was called
    claimBearing, verifierCalls,
    \* log of the pacing delays awaited: run, pro turn shown, duration in ms
    delays,
    \* log of the turns (by id) whose generation response text did not parse
    unparsed,
    \* per run, the verifier's response text to the checkClaims call of the
    \* turn being persisted and what checkClaims made of it: the claims passed
    \* in, whether the text was structurally unusable, whether checkClaims
    \* threw, and the records it returned; kept until persistTurn returns
    verifierReply,
    \* getTurnType applied on its own
    ttN, ttMax, ttOut,
    \* conductParallelResearch, per run and side: the promise the start route
    \* created; and the documents table (rows by run and side)
    research, documents,
    \* environment: whether research lookups may throw or come back empty and
    \* the documents insert may return an error
    researchFaults,
    \* debate_votes rows; log of the vote last accepted for each (debate,
    \* voter session); the last response of the vote route with its request;
    \* number of POST requests made
    debate_votes, voteLog, voteResp, votesPosted,
    \* useDebateRealtime: where the hook is (unmounted, fetching, fetched,
    \* ready, error), the rows the turns query of fetchInitialData read, the
    \* turns state of the hook, the number of debate_turns rows that existed when the
    \* channel was subscribed, and how often the INSERT notification of each
    \* later row was delivered
    hookPhase, fetchedTurns, turnsState, subscribedFrom, notifyCount,
    \* useLieAlerts: the alerts state, the id of activeAlert (0 is null), the
    \* pending auto-clear timeout (the alert its callback names and the
    \* seconds left), the number of alerts notified, and the seconds for which
    \* the active alert has been shown
    alerts, activeAlert, activeAlertTimer, alertsNotified, activeAge,
    \* useAudioPlayer: queueRef, currentUrl (0 is null), isPlaying,
    \* isPlayingRef; the Audio element of audioRef (its src, whether onended
    \* and onerror are set, what it is doing); the URLs whose play() promise
    \* is not settled; the number of URLs enqueued, the URLs that became
    \* currentUrl in that order, and the event handled last
    queueRef, currentUrl, isPlaying, isPlayingRef, audioSrc, audioHandlers, audioState,
    pendingPlay, enqueued, currentLog, audioEvent

storeVars == <<status, description, maxTurns, agentRoles, debate_turns,
               fact_checks, lie_alerts, debate_summaries>>
routeVars == <<reqPc, reqSeen>>
runVars == <<pc, pairStart, side, allTurns, allFactChecks, generated, curTurn,
             fcResults, fcTask, failed>>
envVars == <<arrivals, inputs, claimTurnLimit>>
ttVars == <<ttN, ttMax, ttOut>>
logVars == <<claimBearing, verifierCalls, delays, verifierReply, unparsed>>
researchVars == <<research, documents, researchFaults>>
voteVars == <<debate_votes, voteLog, voteResp, votesPosted>>
\* state outside the orchestrator: the vote route and the client hooks
realtimeVars == <<hookPhase, fetchedTurns, turnsState, subscribedFrom, notifyCount>>
alertVars == <<alerts, activeAlert, activeAlertTimer, alertsNotified, activeAge>>
audioVars == <<queueRef, currentUrl, isPlaying, isPlayingRef, audioSrc, audioHandlers,
               audioState, pendingPlay, enqueued, currentLog, audioEvent>>
edgeVars == <<voteVars, realtimeVars, alertVars, audioVars>>
vars == <<storeVars, routeVars, runVars, envVars, storeFaultsLeft, logVars, ttVars,
         researchVars, edgeVars>>

\* start requests that may arrive for the debate
Requests == {1, 2}
DebateId == "d1"
PhaseOrder == <<"setup", "researching", "live", "voting", "summarizing", "completed">>
Sides == {"pro", "con"}

NoTurn == [id |-> <<0, 0>>, debate_id |-> "", agent_id |-> "", turn_number |-> 0,
           turn_type |-> "", words |-> 0, raw |-> FALSE]
NoGen == [state |-> "none", turnNumber |-> 0, turnType |-> "", claims |-> <<>>,
          history |-> <<>>, words |-> 0, raw |-> FALSE]

\* outcome of one store call: TRUE is success, FALSE a returned error
StoreOutcomes == IF storeFaultsLeft > 0 THEN BOOLEAN ELSE {TRUE}

\* a returned error uses up one of the store errors left
StoreCall(ok) == storeFaultsLeft' = IF ok THEN storeFaultsLeft ELSE storeFaultsLeft - 1

\* ----------------------------------------------------- collaborator inputs
\* claims of a generated response: claim texts are 1..n
ClaimSeqs(limit) == {[i \in 1..n |-> i] : n \in 0..limit}

RawClaim(v, isNum, conf) ==
    [isNull |-> FALSE, claim_text |-> 1, verdict |-> v, confIsNumber |-> isNum,
     confidence |-> conf]
NullClaim == [isNull |-> TRUE, claim_text |-> 0, verdict |-> Undefined,
              confIsNumber |-> FALSE, confidence |-> 0]

RichVerdicts ==
    {"false", "FALSE", " False ", "mostly_false", "Mostly_False", "mostly-false",
     "mixed", "MIXED", "true", "mostly_true ", "unverifiable", "pants on fire",
     Undefined}
RichConfidences == {-20, 0, 50, 79, 80, 85, 89, 90, 100, 130}
RichRawClaims ==
    {RawClaim(v, TRUE, c) : v \in RichVerdicts, c \in RichConfidences}
        \cup {RawClaim(v, FALSE, 0) : v \in RichVerdicts}
        \cup {NullClaim}
SmallRawClaims ==
    {RawClaim("false", TRUE, 95), RawClaim("mixed", TRUE, 85)}
RawClaims == IF inputs = "rich" THEN RichRawClaims ELSE SmallRawClaims

SeqsUpTo(S, n) == UNION {[1..k -> S] : k \in 0..n}

\* what the verification call gives back: an API error ("throw") or a text
VerifierResponses ==
    {[kind |-> k, claimsIsArray |-> FALSE, claims |-> <<>>] :
        k \in {"throw", "nojson", "badjson", "null", "json"}}
    \cup {[kind |-> "json", claimsIsArray |-> TRUE, claims |-> cs] :
            cs \in SeqsUpTo(RawClaims, MaxResults)}

\* word counts of the generated argument (content.split(/\s+/) without the
\* empty pieces): the last count whose time is the floor, and the first above
WordsBelowFloor == 37
WordsAboveFloor == 38
WordCounts ==
    IF inputs = "pacing" THEN {WordsBelowFloor, WordsAboveFloor} ELSE {WordsAboveFloor}

\* what the generation call gives back: an API error ("throw") or a text, by
\* what DebaterAgent.parseResponse makes of it:
\*   kind "json"     : parses to a value validateAndNormalize accepts
\*   kind "nojson"   : does not parse and has no {...} in it
\*   kind "badjson"  : does not parse, and its {...} match does not either
\*   kind "badshape" : parses, but validateAndNormalize throws a TypeError
\*                     (the value is null, or a citation is null)
\* claims are the claims a parsed value carries, words the length of the text
DebaterTextKinds ==
    IF inputs = "parse" THEN {"json", "nojson", "badjson", "badshape"} ELSE {"json"}
DebaterResponses ==
    {[kind |-> "throw", claims |-> <<>>, words |-> 0]}
    \cup {[kind |-> k, claims |-> cs, words |-> w] :
            k \in DebaterTextKinds,
            cs \in ClaimSeqs(IF Cardinality(claimBearing) < claimTurnLimit
                             THEN MaxClaims ELSE 0),
            w \in WordCounts}

\* a parseResponse that passes its failure on to the caller
DebaterParseResponseStrict(resp) ==
    IF resp.kind = "json"
    THEN [throws |-> FALSE, raw |-> FALSE, claims |-> resp.claims, words |-> resp.words]
    ELSE [throws |-> TRUE, raw |-> FALSE, claims |-> <<>>, words |-> 0]

\* DebaterAgent.parseResponse: every failure inside the two try blocks ends in
\* the fallback, the raw text as the argument with no citations and no claims
DebaterParseResponse(resp) ==
    IF resp.kind = "json"
    THEN [throws |-> FALSE, raw |-> FALSE, claims |-> resp.claims, words |-> resp.words]
    ELSE [throws |-> FALSE, raw |-> TRUE, claims |-> <<>>, words |-> resp.words]

\* DebaterAgent.generateArgument: an API error is rethrown
generateArgument(resp) ==
    IF resp.kind = "throw"
    THEN [throws |-> TRUE, raw |-> FALSE, claims |-> <<>>, words |-> 0]
    ELSE DebaterParseResponse(resp)

\* ---------------------------------------------------------------- research
\* one conductParallelResearch promise: not created, pending, fulfilled with
\* a bundle (threw tells whether the lookup threw), or rejected
NoResearch == [state |-> "none", threw |-> FALSE, sources |-> 0]
ResearchRunning == [state |-> "running", threw |-> FALSE, sources |-> 0]

\* what PerplexityClient.search gives back: a throw, or a number of sources
LookupOutcomes ==
    IF researchFaults
    THEN {[throws |-> TRUE, sources |-> 0]}
            \cup {[throws |-> FALSE, sources |-> n] : n \in 0..MaxSources}
    ELSE {[throws |-> FALSE, sources |-> MaxSources]}

\* outcome of the documents insert: TRUE is success, FALSE a returned error
DocumentInsertOutcomes == IF researchFaults THEN BOOLEAN ELSE {TRUE}

\* a lookup whose failure is passed on to the caller
runPerplexitySearchRethrow(out) ==
    IF out.throws
    THEN [state |-> "rejected", threw |-> TRUE, sources |-> 0]
    ELSE [state |-> "fulfilled", threw |-> FALSE, sources |-> out.sources]

\* runPerplexitySearch: a throw of the lookup is caught and gives the empty
\* result
runPerplexitySearch(out) ==
    IF out.throws
    THEN [state |-> "fulfilled", threw |-> TRUE, sources |-> 0]
    ELSE [state |-> "fulfilled", threw |-> FALSE, sources |-> out.sources]

\* conductParallelResearch for one side: the lookup, then the insert of the
\* sources into documents when there are any (an insert error is logged only)
ConductResearch(r, s) ==
    /\ research[r][s].state = "running"
    /\ \E out \in LookupOutcomes, ok \in DocumentInsertOutcomes :
        LET result == runPerplexitySearch(out)
            inserts == result.state = "fulfilled" /\ result.sources > 0
        IN  /\ inserts \/ ok
            /\ research' = [research EXCEPT ![r][s] = result]
            /\ documents' = IF inserts /\ ok THEN documents \cup {<<r, s>>} ELSE documents
    /\ UNCHANGED <<storeVars, routeVars, runVars, envVars, storeFaultsLeft, researchFaults,
                   logVars, ttVars, edgeVars>>

\* ------------------------------------------------------------- start route
\* the route's precondition on the status it read, and a variant that lets a
\* finished debate be started again
StartAllowedOrCompleted(debateStatus) == debateStatus \in {"setup", "completed"}

StartAllowed(debateStatus) == debateStatus = "setup"

\* POST /api/debate/[id]/start: read the debate, check status = setup
RouteFetch(q) ==
    /\ q \in arrivals
    /\ reqPc[q] = "idle"
    /\ \E ok \in StoreOutcomes :
        /\ StoreCall(ok)
        /\ reqSeen' = [reqSeen EXCEPT ![q] = IF ok THEN status ELSE "none"]
        /\ reqPc' = [reqPc EXCEPT ![q] =
                        IF ~ok THEN "404"
                        ELSE IF ~StartAllowed(status) THEN "400"
                        ELSE "update"]
    /\ UNCHANGED <<storeVars, runVars, envVars, researchVars, logVars, ttVars, edgeVars>>

\* write status researching, then start runDebate without awaiting it
RouteStart(q) ==
    /\ reqPc[q] = "update"
    /\ \E ok \in StoreOutcomes :
        /\ StoreCall(ok)
        /\ status' = IF ok THEN "researching" ELSE status
        /\ reqPc' = [reqPc EXCEPT ![q] = IF ok THEN "started" ELSE "500"]
        /\ pc' = [pc EXCEPT ![q] = IF ok THEN "load" ELSE @]
        /\ research' = [research EXCEPT ![q] =
                            IF ok THEN [s \in Sides |-> ResearchRunning] ELSE @]
    /\ UNCHANGED <<description, maxTurns, agentRoles, debate_turns, fact_checks,
                   lie_alerts, debate_summaries, reqSeen, pairStart, side, allTurns,
                   allFactChecks, generated, curTurn, fcResults, fcTask, failed,
                   envVars, documents, researchFaults, logVars, ttVars, edgeVars>>

\* ---------------------------------------------------------------- runDebate
\* DebateOrchestrator.updateStatus: a returned error is logged and dropped
updateStatus(newStatus, ok) == IF ok THEN newStatus ELSE status

\* the run moves to another position and touches nothing else of its own
Goto(r, next) ==
    /\ pc' = [pc EXCEPT ![r] = next]
    /\ UNCHANGED <<pairStart, side, allTurns, allFactChecks, generated, curTurn,
                   fcResults, fcTask, failed>>

\* a throw inside the try block: control goes to the catch clause
Throw(r) ==
    /\ pc' = [pc EXCEPT ![r] = "catch"]
    /\ failed' = [failed EXCEPT ![r] = TRUE]
    /\ UNCHANGED <<pairStart, side, allTurns, allFactChecks, generated, curTurn,
                   fcResults, fcTask>>

\* load the debate row and its agents; both roles must be present
LoadDebate(r) ==
    /\ pc[r] = "load"
    /\ \E okDebate \in StoreOutcomes, okAgents \in StoreOutcomes :
        \* the agents are not queried once the debate query has failed
        /\ ~okDebate => okAgents
        /\ StoreCall(okDebate /\ okAgents)
        /\ IF okDebate /\ okAgents /\ {"pro", "con"} \subseteq agentRoles
           THEN Goto(r, "status_researching")
           ELSE Throw(r)
    /\ UNCHANGED <<storeVars, routeVars, envVars, researchVars, logVars, ttVars, edgeVars>>

\* a status write at one of the fixed points of runDebate
StatusStep(r, at, newStatus, next) ==
    /\ pc[r] = at
    /\ \E ok \in StoreOutcomes :
        /\ StoreCall(ok)
        /\ status' = updateStatus(newStatus, ok)
    /\ Goto(r, next)
    /\ UNCHANGED <<description, maxTurns, agentRoles, debate_turns, fact_checks,
                   lie_alerts, debate_summaries, routeVars, envVars, researchVars, logVars, ttVars, edgeVars>>

StartResearch(r) == StatusStep(r, "status_researching", "researching", "research")

\* await the research promise the route created (Promise.all of both sides):
\* it settles when both sides have, and rejects if a side rejected
AwaitResearch(r) ==
    /\ pc[r] = "research"
    /\ \A s \in Sides : research[r][s].state \in {"fulfilled", "rejected"}
    /\ IF \E s \in Sides : research[r][s].state = "rejected"
       THEN Throw(r)
       ELSE Goto(r, "status_live")
    /\ UNCHANGED <<storeVars, routeVars, envVars, researchVars, storeFaultsLeft, logVars, ttVars, edgeVars>>

StartLive(r) == StatusStep(r, "status_live", "live", "pair")

\* conTurnNum <= maxTurns, with an off-by-one variant
ConTurnDueStrict(r) == pairStart[r] + 1 < maxTurns

ConTurnDue(r) == pairStart[r] + 1 <= maxTurns

\* previousTurns of the con call in the sequential branch: allTurns after the
\* pro turn was pushed; the variant hands over the list as it was before
SequentialConHistoryStale(r, turns) == allTurns[r]

SequentialConHistory(r, turns) == turns

\* previousTurns of the con call in the concurrent branch: allTurns as it is
\* when both calls are made; the variant adds the pro turn of the pair
IntroConHistoryWithPro(r) ==
    Append(allTurns[r], [id |-> <<r, pairStart[r]>>, debate_id |-> DebateId,
                         agent_id |-> "pro", turn_number |-> pairStart[r],
                         turn_type |-> "intro", words |-> 0, raw |-> FALSE])

IntroConHistory(r) == allTurns[r]

\* a generateTurn call in flight: previousTurns is read when the call is made
Running(n, history) ==
    [state |-> "running", turnNumber |-> n, turnType |-> getTurnType(n, maxTurns),
     claims |-> <<>>, history |-> [i \in 1..Len(history) |-> history[i].id],
     words |-> 0, raw |-> FALSE]

\* head of the pair loop (for pairStart <= maxTurns), loadDocuments (errors
\* are swallowed there) and the generateTurn calls the branch starts
PairStart(r) ==
    /\ pc[r] = "pair"
    /\ IF pairStart[r] > maxTurns
       THEN Goto(r, "status_voting")
       ELSE /\ pc' = [pc EXCEPT ![r] =
                        IF getTurnType(pairStart[r], maxTurns) = "intro"
                        THEN "gen_intro" ELSE "gen_pro"]
            /\ generated' = [generated EXCEPT ![r] =
                    [pro |-> Running(pairStart[r], allTurns[r]),
                     con |-> IF getTurnType(pairStart[r], maxTurns) = "intro"
                                /\ ConTurnDue(r)
                             THEN Running(pairStart[r] + 1, IntroConHistory(r))
                             ELSE NoGen]]
            /\ UNCHANGED <<pairStart, side, allTurns, allFactChecks, curTurn,
                           fcResults, fcTask, failed>>
    /\ UNCHANGED <<storeVars, routeVars, envVars, researchVars, storeFaultsLeft, logVars, ttVars, edgeVars>>

\* one generateTurn call settles: the debater API throws, or a response comes
\* back (TTS failures are swallowed). Promise.all rejects on the first throw.
GenerateTurn(r, s) ==
    /\ pc[r] \in {"gen_intro", "gen_pro", "gen_con"}
    /\ generated[r][s].state = "running"
    /\ \E resp \in DebaterResponses :
        LET out == generateArgument(resp) IN
        /\ unparsed' = IF resp.kind \in {"throw", "json"} THEN unparsed
                       ELSE unparsed \cup {<<r, generated[r][s].turnNumber>>}
        /\ IF out.throws
           THEN /\ Throw(r)
                /\ UNCHANGED claimBearing
           ELSE
             LET g == [generated[r] EXCEPT ![s].state = "done", ![s].claims = out.claims,
                                           ![s].words = out.words, ![s].raw = out.raw]
                 settled == \A t \in Sides : g[t].state # "running"
             IN  /\ generated' = [generated EXCEPT ![r] = g]
                 /\ claimBearing' = IF Len(out.claims) > 0
                                    THEN claimBearing \cup {<<r, g[s].turnNumber>>}
                                    ELSE claimBearing
                 /\ pc' = [pc EXCEPT ![r] =
                            IF ~settled THEN @
                            ELSE IF @ = "gen_con" THEN "delay" ELSE "persist"]
                 /\ side' = [side EXCEPT ![r] = IF settled /\ pc[r] # "gen_con" THEN "pro" ELSE @]
                 /\ UNCHANGED <<pairStart, allTurns, allFactChecks, curTurn, fcResults,
                                fcTask, failed>>
    /\ UNCHANGED <<storeVars, routeVars, envVars, researchVars, storeFaultsLeft, verifierCalls, delays, verifierReply,
                   ttVars, edgeVars>>

\* agentResponse.claims.length === 0 (runFactChecks and checkClaims both test it)
HasNoClaimsNever(claims) == FALSE

HasNoClaims(claims) == Len(claims) = 0

\* the row persistTurn inserts; the store assigns the id
TurnRow(r, g, s) ==
    [id |-> <<r, g.turnNumber>>, debate_id |-> DebateId, agent_id |-> s,
     turn_number |-> g.turnNumber, turn_type |-> g.turnType, words |-> g.words,
     raw |-> g.raw]

\* persistTurn returned {turn, factChecks}: push both, then go on in the pair
AfterPersist(r, turn, factChecks) ==
    LET turns == Append(allTurns[r], turn)
        intro == getTurnType(pairStart[r], maxTurns) = "intro"
        conNext == IF intro THEN generated[r].con.state = "done"
                   ELSE ConTurnDue(r)
    IN  /\ allTurns' = [allTurns EXCEPT ![r] = turns]
        /\ allFactChecks' = [allFactChecks EXCEPT ![r] = @ \o factChecks]
        /\ curTurn' = [curTurn EXCEPT ![r] = NoTurn]
        /\ fcResults' = [fcResults EXCEPT ![r] = <<>>]
        /\ fcTask' = [fcTask EXCEPT ![r] = <<>>]
        /\ UNCHANGED <<side, failed>>
        /\ IF side[r] = "pro" /\ conNext
           THEN /\ pc' = [pc EXCEPT ![r] = IF intro THEN "delay" ELSE "gen_con"]
                /\ generated' = [generated EXCEPT ![r].con =
                                    IF intro THEN @
                                    ELSE Running(pairStart[r] + 1,
                                                 SequentialConHistory(r, turns))]
                /\ UNCHANGED pairStart
           ELSE /\ pc' = [pc EXCEPT ![r] = "pair"]
                /\ pairStart' = [pairStart EXCEPT ![r] = @ + 2]
                /\ generated' = [generated EXCEPT ![r] = [pro |-> NoGen, con |-> NoGen]]

\* persistTurn: insert the turn row (an error throws); runFactChecks returns
\* at once when the response carries no claims
PersistTurn(r) ==
    /\ pc[r] = "persist"
    /\ \E ok \in StoreOutcomes :
        LET g == generated[r][side[r]]
            row == TurnRow(r, g, side[r])
        IN  IF ~ok
            THEN /\ StoreCall(ok)
                 /\ Throw(r)
                 /\ UNCHANGED debate_turns
            ELSE /\ StoreCall(ok)
                 /\ debate_turns' = Append(debate_turns, row)
                 /\ IF HasNoClaims(g.claims)
                    THEN AfterPersist(r, row, <<>>)
                    ELSE /\ pc' = [pc EXCEPT ![r] = "fc_call"]
                         /\ curTurn' = [curTurn EXCEPT ![r] = row]
                         /\ UNCHANGED <<pairStart, side, allTurns, allFactChecks,
                                        generated, fcResults, fcTask, failed>>
    /\ UNCHANGED <<status, description, maxTurns, agentRoles, fact_checks, lie_alerts,
                   debate_summaries, routeVars, envVars, researchVars, logVars, ttVars, edgeVars>>

\* the log of a verifier response: none yet, or what checkClaims made of it
NoReply == [given |-> FALSE, claims |-> <<>>, unusable |-> FALSE, threw |-> FALSE,
            results |-> <<>>]
VerifierReply(claims, raw, threw, results) ==
    [given |-> TRUE, claims |-> claims, unusable |-> StructurallyUnusable(raw),
     threw |-> threw, results |-> results]

\* FactCheckerAgent.checkClaims: one batched API call, then parseResponse; an
\* API error or a throw inside parseResponse is rethrown
CheckClaims(r) ==
    /\ pc[r] = "fc_call"
    /\ LET claims == generated[r][side[r]].claims
       IN  IF HasNoClaims(claims)
           THEN /\ pc' = [pc EXCEPT ![r] = "fc_persist"]
                /\ UNCHANGED <<fcResults, fcTask, failed, verifierCalls, verifierReply>>
           ELSE /\ verifierCalls' = verifierCalls \cup {curTurn[r].id}
                /\ \E raw \in VerifierResponses :
                    IF raw.kind = "throw" \/ ParseThrows(raw)
                    THEN /\ pc' = [pc EXCEPT ![r] = "catch"]
                         /\ failed' = [failed EXCEPT ![r] = TRUE]
                         /\ verifierReply' =
                                IF raw.kind = "throw" THEN verifierReply
                                ELSE [verifierReply EXCEPT ![r] =
                                        VerifierReply(claims, raw, TRUE, <<>>)]
                         /\ UNCHANGED <<fcResults, fcTask>>
                    ELSE LET results == parseResponse(raw, claims)
                         IN  /\ fcResults' = [fcResults EXCEPT ![r] = results]
                             /\ verifierReply' = [verifierReply EXCEPT ![r] =
                                    VerifierReply(claims, raw, FALSE, results)]
                             /\ fcTask' = [fcTask EXCEPT ![r] =
                                            [i \in 1..Len(results) |-> "insert"]]
                             /\ pc' = [pc EXCEPT ![r] = "fc_persist"]
                             /\ UNCHANGED failed
    /\ UNCHANGED <<pairStart, side, allTurns, allFactChecks, generated, curTurn>>
    /\ UNCHANGED <<storeVars, routeVars, envVars, researchVars, storeFaultsLeft, claimBearing, delays,
                   unparsed, ttVars, edgeVars>>

\* the fact_checks row written for result i of the current turn
FactCheckRow(r, i) ==
    [id |-> <<curTurn[r].id, i>>, debate_id |-> DebateId, turn_id |-> curTurn[r].id,
     agent_id |-> side[r], claim_text |-> fcResults[r][i].claim_text,
     verdict |-> fcResults[r][i].verdict, confidence |-> fcResults[r][i].confidence,
     is_lie |-> fcResults[r][i].is_lie]

\* whether runFactChecks goes on to write an alert for a result just inserted
\* (a variant that alerts on every inserted result)
NeedsAlertAlways(fc) == TRUE

NeedsAlert(fc) == fc.is_lie

\* runFactChecks, one of the concurrent per-result tasks: insert the verdict;
\* an insert error ends the task
InsertFactCheck(r, i) ==
    /\ pc[r] = "fc_persist"
    /\ i \in 1..Len(fcTask[r])
    /\ fcTask[r][i] = "insert"
    /\ \E ok \in StoreOutcomes :
        /\ StoreCall(ok)
        /\ fact_checks' = IF ok THEN fact_checks \cup {FactCheckRow(r, i)} ELSE fact_checks
        /\ fcTask' = [fcTask EXCEPT ![r][i] =
                        IF ok /\ NeedsAlert(fcResults[r][i]) THEN "alert" ELSE "done"]
    /\ UNCHANGED <<pc, pairStart, side, allTurns, allFactChecks, generated, curTurn,
                   fcResults, failed>>
    /\ UNCHANGED <<status, description, maxTurns, agentRoles, debate_turns, lie_alerts,
                   debate_summaries, routeVars, envVars, researchVars, logVars, ttVars, edgeVars>>

\* the lie_alerts row written for result i
AlertRow(r, i) ==
    [debate_id |-> DebateId, fact_check_id |-> <<curTurn[r].id, i>>,
     claim_text |-> fcResults[r][i].claim_text,
     severity |-> AlertSeverity(fcResults[r][i].confidence)]

\* the same task, second write: the alert of a lie (an error is logged only)
InsertAlert(r, i) ==
    /\ pc[r] = "fc_persist"
    /\ i \in 1..Len(fcTask[r])
    /\ fcTask[r][i] = "alert"
    /\ \E ok \in StoreOutcomes :
        /\ StoreCall(ok)
        /\ lie_alerts' = IF ok THEN lie_alerts \cup {AlertRow(r, i)} ELSE lie_alerts
    /\ fcTask' = [fcTask EXCEPT ![r][i] = "done"]
    /\ UNCHANGED <<pc, pairStart, side, allTurns, allFactChecks, generated, curTurn,
                   fcResults, failed>>
    /\ UNCHANGED <<status, description, maxTurns, agentRoles, debate_turns, fact_checks,
                   debate_summaries, routeVars, envVars, researchVars, logVars, ttVars, edgeVars>>

\* Promise.all over the tasks settles: runFactChecks and persistTurn return
FactChecksDone(r) ==
    /\ pc[r] = "fc_persist"
    /\ \A i \in 1..Len(fcTask[r]) : fcTask[r][i] = "done"
    /\ AfterPersist(r, curTurn[r], fcResults[r])
    /\ verifierReply' = [verifierReply EXCEPT ![r] = NoReply]
    /\ UNCHANGED <<storeVars, routeVars, envVars, researchVars, storeFaultsLeft, claimBearing,
                   verifierCalls, delays, unparsed, ttVars, edgeVars>>

\* the pacing delay before the con turn is shown: estimateDisplayTime of the
\* content of proResult.turn, the turn pushed last
Delay(r) ==
    /\ pc[r] = "delay"
    /\ pc' = [pc EXCEPT ![r] = "persist"]
    /\ side' = [side EXCEPT ![r] = "con"]
    /\ LET proTurn == allTurns[r][Len(allTurns[r])]
       IN  delays' = delays \cup {[run |-> r, after |-> proTurn.turn_number,
                                   ms |-> estimateDisplayTime(proTurn.words)]}
    /\ UNCHANGED <<pairStart, allTurns, allFactChecks, generated, curTurn, fcResults,
                   fcTask, failed>>
    /\ UNCHANGED <<storeVars, routeVars, envVars, researchVars, storeFaultsLeft,
                   claimBearing, verifierCalls, verifierReply, unparsed, ttVars, edgeVars>>

StartVoting(r) == StatusStep(r, "status_voting", "voting", "vote_window")

\* the fixed 5 s voting window
VotingWindow(r) ==
    /\ pc[r] = "vote_window"
    /\ Goto(r, "status_summarizing")
    /\ UNCHANGED <<storeVars, routeVars, envVars, researchVars, storeFaultsLeft, logVars, ttVars, edgeVars>>

StartSummarizing(r) == StatusStep(r, "status_summarizing", "summarizing", "summarize")

\* getVoteResults (an error gives null) and ModeratorAgent.generateSummary,
\* which rethrows an API error
GenerateSummary(r) ==
    /\ pc[r] = "summarize"
    /\ \E throws \in BOOLEAN :
        IF throws THEN Throw(r) ELSE Goto(r, "insert_summary")
    /\ UNCHANGED <<storeVars, routeVars, envVars, researchVars, storeFaultsLeft, logVars, ttVars, edgeVars>>

\* insert into debate_summaries (debate_id is UNIQUE); an error is logged only
InsertSummary(r) ==
    /\ pc[r] = "insert_summary"
    /\ \E ok \in StoreOutcomes :
        /\ StoreCall(ok)
        /\ debate_summaries' = IF ok /\ debate_summaries = 0 THEN 1 ELSE debate_summaries
    /\ Goto(r, "status_completed")
    /\ UNCHANGED <<status, description, maxTurns, agentRoles, debate_turns, fact_checks,
                   lie_alerts, routeVars, envVars, researchVars, logVars, ttVars, edgeVars>>

Complete(r) == StatusStep(r, "status_completed", "completed", "done")

\* a failure handler that also rolls back the run's partial transcript
CatchFailureRollback(r) ==
    /\ pc[r] = "catch"
    /\ \E ok \in StoreOutcomes :
        /\ StoreCall(ok)
        /\ status' = IF ok THEN "completed" ELSE status
        /\ description' = IF ok THEN "[ERROR]" ELSE description
    /\ debate_turns' = SelectSeq(debate_turns, LAMBDA t : t.id[1] # r)
    /\ Goto(r, "done")
    /\ UNCHANGED <<maxTurns, agentRoles, fact_checks, lie_alerts,
                   debate_summaries, routeVars, envVars, researchVars, logVars, ttVars, edgeVars>>

\* the catch clause: status completed and the error marker in one update; an
\* error of that update is logged only
CatchFailure(r) ==
    /\ pc[r] = "catch"
    /\ \E ok \in StoreOutcomes :
        /\ StoreCall(ok)
        /\ status' = IF ok THEN "completed" ELSE status
        /\ description' = IF ok THEN "[ERROR]" ELSE description
    /\ Goto(r, "done")
    /\ UNCHANGED <<maxTurns, agentRoles, debate_turns, fact_checks, lie_alerts,
                   debate_summaries, routeVars, envVars, researchVars, logVars, ttVars, edgeVars>>

\* ------------------------------------------------- getTurnType on its own
CallGetTurnType ==
    /\ ttOut = "none"
    /\ ttOut' = getTurnType(ttN, ttMax)
    /\ UNCHANGED <<ttN, ttMax, storeVars, routeVars, runVars, envVars, researchVars, storeFaultsLeft, logVars,
                   edgeVars>>

\* --------------------------------------------------------------- vote route
\* debates voted on, and what the request body may carry as voter_session_id
\* and vote (0 and "" stand for a missing field)
VoteDebates == {"d1", "d2"}
VoterSessions == 1..MaxVoters
VoteValues == {"pro", "con", "abstain", ""}

NoVoteResp == [op |-> "none", debate_id |-> "", voter_session_id |-> 0, vote |-> "",
               status |-> 0, pro_count |-> 0, con_count |-> 0, total |-> 0]

VoteIdle ==
    /\ debate_votes = {}
    /\ voteLog = [d \in VoteDebates |-> [v \in VoterSessions |-> "none"]]
    /\ voteResp = NoVoteResp
    /\ votesPosted = 0

\* a write that adds a row whether or not the key is already there
upsertInsertOnly(table, id, d, v, vote) ==
    table \cup {[id |-> id, debate_id |-> d, voter_session_id |-> v, vote |-> vote]}

\* upsert with onConflict 'debate_id,voter_session_id': the row with the key
\* gets the new vote, or a new row is inserted
upsert(table, id, d, v, vote) ==
    IF \E row \in table : row.debate_id = d /\ row.voter_session_id = v
    THEN {IF row.debate_id = d /\ row.voter_session_id = v
          THEN [row EXCEPT !.vote = vote] ELSE row : row \in table}
    ELSE table \cup {[id |-> id, debate_id |-> d, voter_session_id |-> v, vote |-> vote]}

\* POST /api/vote: 400 on a missing field or a vote other than pro and con,
\* 500 on a store error, else the upsert
VotePost ==
    /\ votesPosted < MaxVotePosts
    /\ votesPosted' = votesPosted + 1
    /\ \E d \in VoteDebates, v \in VoterSessions \cup {0}, vote \in VoteValues, ok \in BOOLEAN :
        LET missing == v = 0 \/ vote = ""
            invalid == vote # "pro" /\ vote # "con"
            code == IF missing \/ invalid THEN 400 ELSE IF ~ok THEN 500 ELSE 200
        IN  /\ (missing \/ invalid) => ok
            /\ voteResp' = [NoVoteResp EXCEPT !.op = "POST", !.debate_id = d,
                                              !.voter_session_id = v, !.vote = vote,
                                              !.status = code]
            /\ debate_votes' = IF code = 200
                               THEN upsert(debate_votes, votesPosted + 1, d, v, vote)
                               ELSE debate_votes
            /\ voteLog' = IF code = 200 THEN [voteLog EXCEPT ![d][v] = vote] ELSE voteLog
    /\ UNCHANGED <<realtimeVars, alertVars, audioVars>>
    /\ UNCHANGED <<storeVars, routeVars, runVars, envVars, researchVars, storeFaultsLeft,
                   logVars, ttVars>>

\* the counts GET /api/vote computes from the rows of a debate
VoteTally(d) ==
    LET votes == {row \in debate_votes : row.debate_id = d}
        pro == Cardinality({row \in votes : row.vote = "pro"})
        con == Cardinality({row \in votes : row.vote = "con"})
    IN  [pro_count |-> pro, con_count |-> con, total |-> pro + con]

\* GET /api/vote?debate_id=...: 500 on a store error, else the tally
VoteGet ==
    /\ \E d \in VoteDebates, ok \in BOOLEAN :
        voteResp' = IF ok
                    THEN [NoVoteResp EXCEPT !.op = "GET", !.debate_id = d, !.status = 200,
                                            !.pro_count = VoteTally(d).pro_count,
                                            !.con_count = VoteTally(d).con_count,
                                            !.total = VoteTally(d).total]
                    ELSE [NoVoteResp EXCEPT !.op = "GET", !.debate_id = d, !.status = 500]
    /\ UNCHANGED <<debate_votes, voteLog, votesPosted, realtimeVars, alertVars, audioVars>>
    /\ UNCHANGED <<storeVars, routeVars, runVars, envVars, researchVars, storeFaultsLeft,
                   logVars, ttVars>>

\* ------------------------------------------------------- useDebateRealtime
RealtimeIdle ==
    /\ hookPhase = "unmounted"
    /\ fetchedTurns = <<>>
    /\ turnsState = <<>>
    /\ subscribedFrom = 0
    /\ notifyCount = [i \in 1..MaxHookTurns |-> 0]

\* a row put at its place in a list ordered by turn_number
RECURSIVE InsertByTurnNumber(_, _)
InsertByTurnNumber(rows, row) ==
    IF rows = <<>> THEN <<row>>
    ELSE IF row.turn_number < Head(rows).turn_number THEN <<row>> \o rows
    ELSE <<Head(rows)>> \o InsertByTurnNumber(Tail(rows), row)

\* .order('turn_number', { ascending: true })
RECURSIVE OrderByTurnNumber(_)
OrderByTurnNumber(rows) ==
    IF rows = <<>> THEN <<>>
    ELSE InsertByTurnNumber(OrderByTurnNumber(SubSeq(rows, 1, Len(rows) - 1)),
                            rows[Len(rows)])

\* the mount effect: fetchInitialData is called and the channel subscribed
HookMount ==
    /\ hookPhase = "unmounted"
    /\ hookPhase' = "fetching"
    /\ subscribedFrom' = Len(debate_turns)
    /\ UNCHANGED <<fetchedTurns, turnsState, notifyCount>>
    /\ UNCHANGED <<storeVars, routeVars, runVars, envVars, researchVars, storeFaultsLeft,
                   logVars, ttVars, voteVars, alertVars, audioVars>>

\* the turns query of fetchInitialData is answered by the store; an error of
\* one of the three queries ends fetchInitialData in its catch clause
HookFetchQuery ==
    /\ hookPhase = "fetching"
    /\ \E ok \in BOOLEAN :
        /\ hookPhase' = IF ok THEN "fetched" ELSE "error"
        /\ fetchedTurns' = IF ok THEN OrderByTurnNumber(debate_turns) ELSE fetchedTurns
    /\ UNCHANGED <<turnsState, subscribedFrom, notifyCount>>
    /\ UNCHANGED <<storeVars, routeVars, runVars, envVars, researchVars, storeFaultsLeft,
                   logVars, ttVars, voteVars, alertVars, audioVars>>

\* Promise.all has resolved: setTurns(turnsRes.data)
HookFetchApply ==
    /\ hookPhase = "fetched"
    /\ hookPhase' = "ready"
    /\ turnsState' = fetchedTurns
    /\ UNCHANGED <<fetchedTurns, subscribedFrom, notifyCount>>
    /\ UNCHANGED <<storeVars, routeVars, runVars, envVars, researchVars, storeFaultsLeft,
                   logVars, ttVars, voteVars, alertVars, audioVars>>

\* an INSERT handler that appends whatever arrives
RealtimeInsertHandlerAppend(prev, newTurn) == Append(prev, newTurn)

\* the debate_turns INSERT handler: setTurns with the duplicate check
RealtimeInsertHandler(prev, newTurn) ==
    IF \E i \in 1..Len(prev) : prev[i].id = newTurn.id THEN prev
    ELSE Append(prev, newTurn)

\* the INSERT notification of row i is delivered: rows are notified in the
\* order of their insertion, and a notification may be delivered again
HookNotify(i) ==
    /\ hookPhase # "unmounted"
    /\ i > subscribedFrom /\ i <= Len(debate_turns) /\ i <= MaxHookTurns
    /\ notifyCount[i] < MaxDeliveries
    /\ IF i = subscribedFrom + 1 THEN TRUE ELSE notifyCount[i - 1] > 0
    /\ notifyCount' = [notifyCount EXCEPT ![i] = @ + 1]
    /\ turnsState' = RealtimeInsertHandler(turnsState, debate_turns[i])
    /\ UNCHANGED <<hookPhase, fetchedTurns, subscribedFrom>>
    /\ UNCHANGED <<storeVars, routeVars, runVars, envVars, researchVars, storeFaultsLeft,
                   logVars, ttVars, voteVars, alertVars, audioVars>>

\* ------------------------------------------------------------ useLieAlerts
NoTimer == [alert |-> 0, left |-> 0]

AlertsIdle ==
    /\ alerts = <<>>
    /\ activeAlert = 0
    /\ activeAlertTimer = NoTimer
    /\ alertsNotified = 0
    /\ activeAge = 0

\* the lie_alerts INSERT handler: add the alert unless it is there, then
\* showActiveAlert: clear the pending timeout, set activeAlert, start a new
\* timeout of 5 s
AlertArrives ==
    /\ alertsNotified < MaxAlerts
    /\ LET id == alertsNotified + 1
       IN  /\ alertsNotified' = id
           /\ alerts' = IF \E i \in 1..Len(alerts) : alerts[i].id = id THEN alerts
                        ELSE Append(alerts, [id |-> id, dismissed |-> FALSE])
           /\ activeAlert' = id
           /\ activeAlertTimer' = [alert |-> id, left |-> AutoClearSeconds]
           /\ activeAge' = 0
    /\ UNCHANGED <<storeVars, routeVars, runVars, envVars, researchVars, storeFaultsLeft,
                   logVars, ttVars, voteVars, realtimeVars, audioVars>>

\* the timeout callback: clear activeAlert if it is still the alert the
\* timeout was started for
AlertTimerFires ==
    /\ activeAlertTimer # NoTimer
    /\ activeAlertTimer.left = 0
    /\ activeAlert' = IF activeAlert = activeAlertTimer.alert THEN 0 ELSE activeAlert
    /\ activeAlertTimer' = NoTimer
    /\ activeAge' = IF activeAlert = activeAlertTimer.alert THEN 0 ELSE activeAge
    /\ UNCHANGED <<alerts, alertsNotified>>
    /\ UNCHANGED <<storeVars, routeVars, runVars, envVars, researchVars, storeFaultsLeft,
                   logVars, ttVars, voteVars, realtimeVars, audioVars>>

\* dismissAlert(id): mark the alert dismissed, clear activeAlert if it is the
\* one dismissed, and clear the pending timeout whichever alert it is for
DismissAlert(id) ==
    /\ \E i \in 1..Len(alerts) : alerts[i].id = id
    /\ alerts' = [i \in 1..Len(alerts) |->
                    IF alerts[i].id = id THEN [alerts[i] EXCEPT !.dismissed = TRUE]
                    ELSE alerts[i]]
    /\ activeAlert' = IF activeAlert = id THEN 0 ELSE activeAlert
    /\ activeAge' = IF activeAlert = id THEN 0 ELSE activeAge
    /\ activeAlertTimer' = NoTimer
    /\ UNCHANGED alertsNotified
    /\ UNCHANGED <<storeVars, routeVars, runVars, envVars, researchVars, storeFaultsLeft,
                   logVars, ttVars, voteVars, realtimeVars, audioVars>>

\* one second passes while an alert is shown; a timeout that is due runs
\* before more time passes
AlertTick ==
    /\ activeAlert # 0
    /\ activeAge < AlertClockCap
    /\ activeAlertTimer = NoTimer \/ activeAlertTimer.left > 0
    /\ activeAge' = activeAge + 1
    /\ activeAlertTimer' = IF activeAlertTimer = NoTimer THEN NoTimer
                           ELSE [activeAlertTimer EXCEPT !.left = @ - 1]
    /\ UNCHANGED <<alerts, activeAlert, alertsNotified>>
    /\ UNCHANGED <<storeVars, routeVars, runVars, envVars, researchVars, storeFaultsLeft,
                   logVars, ttVars, voteVars, realtimeVars, audioVars>>

\* ---------------------------------------------------------- useAudioPlayer
NoAudioEvent == [kind |-> "none", url |-> 0]

AudioIdle ==
    /\ queueRef = <<>>
    /\ currentUrl = 0
    /\ isPlaying = FALSE
    /\ isPlayingRef = FALSE
    /\ audioSrc = 0
    /\ audioHandlers = FALSE
    /\ audioState = "none"
    /\ pendingPlay = {}
    /\ enqueued = 0
    /\ currentLog = <<>>
    /\ audioEvent = NoAudioEvent

\* playNext, called with the queue, the element and the unsettled play()
\* promises as its caller left them: with an empty queue it clears the
\* playing state; otherwise it takes the head of the queue, makes it
\* currentUrl, sets onended and onerror, sets src and calls play()
playNext(queue, handlers, state, pending) ==
    IF queue = <<>>
    THEN /\ isPlaying' = FALSE
         /\ currentUrl' = 0
         /\ isPlayingRef' = FALSE
         /\ queueRef' = queue
         /\ audioHandlers' = handlers
         /\ audioState' = state
         /\ pendingPlay' = pending
         /\ UNCHANGED <<audioSrc, currentLog>>
    ELSE /\ queueRef' = Tail(queue)
         /\ currentUrl' = Head(queue)
         /\ isPlaying' = TRUE
         /\ isPlayingRef' = TRUE
         /\ audioHandlers' = TRUE
         /\ audioSrc' = Head(queue)
         /\ audioState' = "loading"
         /\ pendingPlay' = pending \cup {Head(queue)}
         /\ currentLog' = Append(currentLog, Head(queue))

AudioOthersUnchanged ==
    UNCHANGED <<storeVars, routeVars, runVars, envVars, researchVars, storeFaultsLeft,
                logVars, ttVars, voteVars, realtimeVars, alertVars>>

\* enqueue(url): append to the queue, and start playing if nothing plays
AudioEnqueue ==
    /\ enqueued < MaxUrls
    /\ enqueued' = enqueued + 1
    /\ audioEvent' = [kind |-> "enqueue", url |-> enqueued + 1]
    /\ IF ~isPlayingRef
       THEN playNext(Append(queueRef, enqueued + 1), audioHandlers, audioState, pendingPlay)
       ELSE /\ queueRef' = Append(queueRef, enqueued + 1)
            /\ UNCHANGED <<currentUrl, isPlaying, isPlayingRef, audioSrc, audioHandlers,
                           audioState, pendingPlay, currentLog>>
    /\ AudioOthersUnchanged

\* the play() promise of the element's source is fulfilled: playback starts,
\* no handler of the hook runs
AudioPlayStarts ==
    /\ audioState = "loading"
    /\ audioSrc \in pendingPlay
    /\ audioState' = "playing"
    /\ pendingPlay' = pendingPlay \ {audioSrc}
    /\ audioEvent' = [kind |-> "started", url |-> audioSrc]
    /\ UNCHANGED <<queueRef, currentUrl, isPlaying, isPlayingRef, audioSrc, audioHandlers,
                   enqueued, currentLog>>
    /\ AudioOthersUnchanged

\* the element reaches the end of its source: onended, if set, calls playNext
AudioEnded ==
    /\ audioState = "playing"
    /\ audioHandlers
    /\ audioEvent' = [kind |-> "ended", url |-> audioSrc]
    /\ playNext(queueRef, audioHandlers, "ended", pendingPlay)
    /\ UNCHANGED enqueued
    /\ AudioOthersUnchanged

\* the element fails to load or decode its source: onerror, if set, calls
\* playNext; a play() promise still pending for the source stays pending
AudioError ==
    /\ audioState \in {"loading", "playing"}
    /\ audioHandlers
    /\ audioEvent' = [kind |-> "error", url |-> audioSrc]
    /\ playNext(queueRef, audioHandlers, "failed", pendingPlay)
    /\ UNCHANGED enqueued
    /\ AudioOthersUnchanged

\* a play() promise is rejected: the catch callback of the playNext call
\* that made it calls playNext, whatever the element plays by then
AudioPlayRejected(u) ==
    /\ u \in pendingPlay
    /\ audioEvent' = [kind |-> "rejected", url |-> u]
    /\ playNext(queueRef, audioHandlers,
                IF audioSrc = u /\ audioState = "loading" THEN "failed" ELSE audioState,
                pendingPlay \ {u})
    /\ UNCHANGED enqueued
    /\ AudioOthersUnchanged

\* skip(): pause the element and unset onended and onerror if there is an
\* element, then playNext
AudioSkip ==
    /\ audioEvent' = [kind |-> "skip", url |-> currentUrl]
    /\ IF audioState = "none"
       THEN playNext(queueRef, audioHandlers, audioState, pendingPlay)
       ELSE playNext(queueRef, FALSE, "paused", pendingPlay)
    /\ UNCHANGED enqueued
    /\ AudioOthersUnchanged

EdgeIdle == VoteIdle /\ RealtimeIdle /\ AlertsIdle /\ AudioIdle

\* ---------------------------------------------------------- specifications
\* the debate as the create route leaves it: status setup, nothing persisted
StoreInit ==
    /\ status = "setup"
    /\ description = ""
    /\ debate_turns = <<>>
    /\ fact_checks = {}
    /\ lie_alerts = {}
    /\ debate_summaries = 0

RunsInit ==
    /\ reqPc = [q \in Requests |-> "idle"]
    /\ reqSeen = [q \in Requests |-> "none"]
    /\ pc = [r \in Requests |-> "none"]
    /\ pairStart = [r \in Requests |-> 1]
    /\ side = [r \in Requests |-> "pro"]
    /\ allTurns = [r \in Requests |-> <<>>]
    /\ allFactChecks = [r \in Requests |-> <<>>]
    /\ generated = [r \in Requests |-> [pro |-> NoGen, con |-> NoGen]]
    /\ curTurn = [r \in Requests |-> NoTurn]
    /\ fcResults = [r \in Requests |-> <<>>]
    /\ fcTask = [r \in Requests |-> <<>>]
    /\ failed = [r \in Requests |-> FALSE]
    /\ claimBearing = {}
    /\ verifierCalls = {}
    /\ unparsed = {}
    /\ verifierReply = [r \in Requests |-> NoReply]
    /\ delays = {}
    /\ research = [r \in Requests |-> [s \in Sides |-> NoResearch]]
    /\ documents = {}

TurnTypeIdle == ttN = 0 /\ ttMax = 0 /\ ttOut = "none"

\* one start request, store calls may fail, any debate size and agent set
Init ==
    /\ StoreInit
    /\ RunsInit
    /\ TurnTypeIdle
    /\ maxTurns \in 2..MaxTurnsBound
    /\ agentRoles \in SUBSET Sides
    /\ arrivals = {1}
    /\ storeFaultsLeft = MaxStoreFaults
    /\ inputs = "small"
    /\ claimTurnLimit = MaxClaimTurns
    /\ researchFaults = FALSE
    /\ EdgeIdle

RunStep(r) ==
    \/ LoadDebate(r)
    \/ StartResearch(r)
    \/ AwaitResearch(r)
    \/ StartLive(r)
    \/ PairStart(r)
    \/ \E s \in Sides : GenerateTurn(r, s)
    \/ PersistTurn(r)
    \/ CheckClaims(r)
    \/ \E i \in 1..MaxResults + MaxClaims : InsertFactCheck(r, i)
    \/ \E i \in 1..MaxResults + MaxClaims : InsertAlert(r, i)
    \/ FactChecksDone(r)
    \/ Delay(r)
    \/ StartVoting(r)
    \/ VotingWindow(r)
    \/ StartSummarizing(r)
    \/ GenerateSummary(r)
    \/ InsertSummary(r)
    \/ Complete(r)
    \/ CatchFailure(r)

Next ==
    \/ \E q \in Requests : RouteFetch(q)
    \/ \E q \in Requests : RouteStart(q)
    \/ \E r \in Requests, s \in Sides : ConductResearch(r, s)
    \/ \E r \in Requests : RunStep(r)

Spec == Init /\ [][Next]_vars

\* two start requests for the same debate, arriving at any time; store calls
\* succeed, and one turn may carry claims
InitRace ==
    /\ StoreInit
    /\ RunsInit
    /\ TurnTypeIdle
    /\ maxTurns \in 2..RaceTurnsBound
    /\ agentRoles = Sides
    /\ arrivals = Requests
    /\ storeFaultsLeft = 0
    /\ inputs = "small"
    /\ claimTurnLimit = 1
    /\ researchFaults = FALSE
    /\ EdgeIdle

SpecRace == InitRace /\ [][Next]_vars

\* one start request whose research lookups may throw or come back empty and
\* whose documents inserts may fail; the other store calls succeed, and one
\* turn may carry claims
InitResearch ==
    /\ StoreInit
    /\ RunsInit
    /\ TurnTypeIdle
    /\ maxTurns \in 2..ResearchTurnsBound
    /\ agentRoles = Sides
    /\ arrivals = {1}
    /\ storeFaultsLeft = 0
    /\ inputs = "small"
    /\ claimTurnLimit = 1
    /\ researchFaults = TRUE
    /\ EdgeIdle

SpecResearch == InitResearch /\ [][Next]_vars

\* one start request whose generated arguments vary in length; store calls
\* succeed, and one turn may carry claims
InitPacing ==
    /\ StoreInit
    /\ RunsInit
    /\ TurnTypeIdle
    /\ maxTurns \in 2..PacingTurnsBound
    /\ agentRoles = Sides
    /\ arrivals = {1}
    /\ storeFaultsLeft = 0
    /\ inputs = "pacing"
    /\ claimTurnLimit = 1
    /\ researchFaults = FALSE
    /\ EdgeIdle

SpecPacing == InitPacing /\ [][Next]_vars

\* one start request, no store errors, generation texts that may not parse
InitParse ==
    /\ StoreInit
    /\ RunsInit
    /\ TurnTypeIdle
    /\ maxTurns \in 2..ParseTurnsBound
    /\ agentRoles = Sides
    /\ arrivals = {1}
    /\ storeFaultsLeft = 0
    /\ inputs = "parse"
    /\ claimTurnLimit = 1
    /\ researchFaults = FALSE
    /\ EdgeIdle

SpecParse == InitParse /\ [][Next]_vars

\* the orchestrator at rest: no start request arrives
OrchestratorIdle ==
    /\ StoreInit
    /\ RunsInit
    /\ TurnTypeIdle
    /\ maxTurns = 2
    /\ agentRoles = Sides
    /\ arrivals = {}
    /\ storeFaultsLeft = 0
    /\ inputs = "small"
    /\ claimTurnLimit = 0
    /\ researchFaults = FALSE

\* the vote route on its own
InitVote == OrchestratorIdle /\ EdgeIdle

NextVote == VotePost \/ VoteGet

SpecVote == InitVote /\ [][NextVote]_vars

\* one start request and one client that mounts useDebateRealtime at any
\* time; store calls of the orchestrator succeed
InitRealtime ==
    /\ StoreInit
    /\ RunsInit
    /\ TurnTypeIdle
    /\ maxTurns \in 2..MaxHookTurns
    /\ agentRoles = Sides
    /\ arrivals = {1}
    /\ storeFaultsLeft = 0
    /\ inputs = "small"
    /\ claimTurnLimit = 1
    /\ researchFaults = FALSE
    /\ EdgeIdle

NextRealtime ==
    \/ Next
    \/ HookMount
    \/ HookFetchQuery
    \/ HookFetchApply
    \/ \E i \in 1..MaxHookTurns : HookNotify(i)

SpecRealtime == InitRealtime /\ [][NextRealtime]_vars

\* useLieAlerts on its own: alerts are notified, dismissed, and time passes
InitAlerts == OrchestratorIdle /\ EdgeIdle

NextAlerts ==
    \/ AlertArrives
    \/ AlertTimerFires
    \/ \E id \in 1..MaxAlerts : DismissAlert(id)
    \/ AlertTick

SpecAlerts == InitAlerts /\ [][NextAlerts]_vars

\* useAudioPlayer on its own: URLs are enqueued and skipped while the element
\* starts, ends and fails
InitAudio == OrchestratorIdle /\ EdgeIdle

NextAudio ==
    \/ AudioEnqueue
    \/ AudioPlayStarts
    \/ AudioEnded
    \/ AudioError
    \/ \E u \in 1..MaxUrls : AudioPlayRejected(u)
    \/ AudioSkip

SpecAudio == InitAudio /\ [][NextAudio]_vars

\* getTurnType applied to every (turnNumber, maxTurns) within the bound
InitTurnType ==
    /\ StoreInit
    /\ RunsInit
    /\ maxTurns = 2
    /\ agentRoles = Sides
    /\ arrivals = {}
    /\ storeFaultsLeft = 0
    /\ inputs = "small"
    /\ claimTurnLimit = 0
    /\ researchFaults = FALSE
    /\ EdgeIdle
    /\ ttMax \in 2..TurnTypeBound
    /\ ttN \in 1..ttMax
    /\ ttOut = "none"

SpecTurnType == InitTurnType /\ [][CallGetTurnType]_vars

\* persistTurn and the claim verification of one generated turn, with the
\* full range of verifier responses: the run stands before persistTurn of
\* turn 1, the opening pair generated
Generated(n, claims) ==
    [state |-> "done", turnNumber |-> n, turnType |-> getTurnType(n, maxTurns),
     claims |-> claims, history |-> <<>>, words |-> WordsAboveFloor, raw |-> FALSE]

InitVerify ==
    /\ description = ""
    /\ debate_turns = <<>>
    /\ fact_checks = {}
    /\ lie_alerts = {}
    /\ debate_summaries = 0
    /\ TurnTypeIdle
    /\ status = "live"
    /\ maxTurns = 2
    /\ agentRoles = Sides
    /\ arrivals = {1}
    /\ storeFaultsLeft = MaxStoreFaults
    /\ inputs = "rich"
    /\ claimTurnLimit = 1
    /\ reqPc = [q \in Requests |-> IF q = 1 THEN "started" ELSE "idle"]
    /\ reqSeen = [q \in Requests |-> IF q = 1 THEN "setup" ELSE "none"]
    /\ pc = [r \in Requests |-> IF r = 1 THEN "persist" ELSE "none"]
    /\ pairStart = [r \in Requests |-> 1]
    /\ side = [r \in Requests |-> "pro"]
    /\ allTurns = [r \in Requests |-> <<>>]
    /\ allFactChecks = [r \in Requests |-> <<>>]
    /\ \E cs \in ClaimSeqs(MaxClaims) :
        /\ generated = [r \in Requests |->
                            IF r = 1 THEN [pro |-> Generated(1, cs), con |-> Generated(2, <<>>)]
                            ELSE [pro |-> NoGen, con |-> NoGen]]
        /\ claimBearing = IF Len(cs) > 0 THEN {<<1, 1>>} ELSE {}
    /\ curTurn = [r \in Requests |-> NoTurn]
    /\ fcResults = [r \in Requests |-> <<>>]
    /\ fcTask = [r \in Requests |-> <<>>]
    /\ failed = [r \in Requests |-> FALSE]
    /\ verifierCalls = {}
    /\ unparsed = {}
    /\ verifierReply = [r \in Requests |-> NoReply]
    /\ delays = {}
    /\ research = [r \in Requests |->
                    [s \in Sides |-> IF r = 1
                                     THEN [state |-> "fulfilled", threw |-> FALSE,
                                           sources |-> MaxSources]
                                     ELSE NoResearch]]
    /\ documents = {<<1, s>> : s \in Sides}
    /\ researchFaults = FALSE
    /\ EdgeIdle

NextVerify ==
    \/ PersistTurn(1)
    \/ CheckClaims(1)
    \/ \E i \in 1..MaxResults + MaxClaims : InsertFactCheck(1, i)
    \/ \E i \in 1..MaxResults + MaxClaims : InsertAlert(1, i)
    \/ FactChecksDone(1)

SpecVerify == InitVerify /\ [][NextVerify]_vars

\* ------------------------------------------------------------- properties
\* the turns a run has persisted, in insertion order
RunTurns(r) == SelectSeq(debate_turns, LAMBDA t : t.id[1] = r)

\* positions of a run from the voting phase on, not reached through a throw
AfterLive == {"vote_window", "status_summarizing", "summarize", "insert_summary",
              "status_completed"}
ReachedVoting(r) == pc[r] \in AfterLive \/ (pc[r] = "done" /\ ~failed[r])

\* C1: a run that reaches the voting phase has persisted exactly maxTurns
\* turns, numbered 1..maxTurns in that order, odd turns by pro, even by con
Thm_C1_TurnsPersisted ==
    \A r \in Requests :
        ReachedVoting(r) =>
            /\ Len(RunTurns(r)) = maxTurns
            /\ \A i \in 1..Len(RunTurns(r)) :
                /\ RunTurns(r)[i].turn_number = i
                /\ RunTurns(r)[i].agent_id = IF i % 2 = 1 THEN "pro" ELSE "con"

\* C1 witness: a debate of five turns (the last pair has no con turn) is in
\* its voting window with all five turns persisted
Wit_C1_VotingAfterFiveTurns ==
    \E r \in Requests :
        /\ pc[r] = "vote_window"
        /\ status = "voting"
        /\ maxTurns = 5
        /\ Len(RunTurns(r)) = 5

\* C2: in every reachable state the persisted turn numbers are 1..k, no
\* number is shared by two turns, and turns were persisted in increasing order
Orig_C2_TurnNumbersContiguous ==
    \A i \in 1..Len(debate_turns) : debate_turns[i].turn_number = i

PhaseIndex(s) == CHOOSE i \in 1..Len(PhaseOrder) : PhaseOrder[i] = s

\* C3: the persisted status only moves one phase forward along
\* setup -> researching -> live -> voting -> summarizing -> completed, or
\* jumps to completed; no phase is skipped or revisited
Orig_C3_StatusOrder ==
    [][\/ status' = status
       \/ PhaseIndex(status') = PhaseIndex(status) + 1
       \/ status' = "completed"]_vars

\* C4: once a run that raised an error has ended, the debate has status
\* completed and the failure marker in its description
Orig_C4_FailureCompletes ==
    \A r \in Requests :
        (pc[r] = "done" /\ failed[r]) => (status = "completed" /\ description = "[ERROR]")

\* C5: when the pro turn of a pair is a rebuttal or closing turn, the con
\* turn's generation has started only if the pro turn is persisted, and the
\* history given to it contains that pro turn
Thm_C5_ConSeesPro ==
    \A r \in Requests :
        LET g == generated[r]
        IN  (g.con.state # "none" /\ g.pro.turnType \in {"rebuttal", "conclusion"}) =>
                /\ g.con.turnNumber = g.pro.turnNumber + 1
                /\ \E i \in 1..Len(debate_turns) :
                    /\ debate_turns[i].id = <<r, g.pro.turnNumber>>
                    /\ debate_turns[i].agent_id = "pro"
                /\ \E j \in 1..Len(g.con.history) :
                    g.con.history[j] = <<r, g.pro.turnNumber>>

\* C5 witness: with five turns, turn 3 (pro, rebuttal) is persisted and the
\* generation of turn 4 (con) runs
Wit_C5_ConAfterRebuttalRunning ==
    \E r \in Requests :
        /\ maxTurns = 5
        /\ generated[r].con.state = "running"
        /\ generated[r].con.turnNumber = 4
        /\ generated[r].pro.turnType = "rebuttal"

\* C6 as stated: opening for n in {1, 2}, closing for n in {maxTurns - 1,
\* maxTurns}, rebuttal in between
Orig_C6_TurnType ==
    ttOut # "none" =>
        /\ (ttN \in {1, 2} => ttOut = "intro")
        /\ (ttN \in {ttMax - 1, ttMax} => ttOut = "conclusion")
        /\ (ttN > 2 /\ ttN < ttMax - 1 => ttOut = "rebuttal")

\* C6 amended: opening for n in {1, 2}; closing for n in {maxTurns - 1,
\* maxTurns} with n > 2; rebuttal for 2 < n < maxTurns - 1; and for
\* maxTurns = 6 turns 1, 2 are opening, 3, 4 rebuttal, 5, 6 closing
Thm_C6_TurnType ==
    ttOut # "none" =>
        /\ (ttN \in {1, 2} => ttOut = "intro")
        /\ (ttN \in {ttMax - 1, ttMax} /\ ttN > 2 => ttOut = "conclusion")
        /\ (ttN > 2 /\ ttN < ttMax - 1 => ttOut = "rebuttal")
        /\ (ttMax = 6 =>
                ttOut = CASE ttN \in {1, 2} -> "intro"
                          [] ttN \in {3, 4} -> "rebuttal"
                          [] OTHER -> "conclusion")

\* C6 witness: getTurnType(5, 6) answered closing
Wit_C6_FiveOfSix == ttMax = 6 /\ ttN = 5 /\ ttOut = "conclusion"

\* every verdict record the verifier has produced: those a run holds and
\* those written to fact_checks
VerdictRecords ==
    UNION {{fcResults[r][i] : i \in 1..Len(fcResults[r])} : r \in Requests}
    \cup UNION {{allFactChecks[r][i] : i \in 1..Len(allFactChecks[r])} : r \in Requests}
    \cup {[claim_text |-> row.claim_text, verdict |-> row.verdict,
           confidence |-> row.confidence, is_lie |-> row.is_lie] : row \in fact_checks}

\* C7: every verdict record has a normalized verdict, a confidence in [0, 1],
\* and is_lie exactly when confidence >= 0.8 and the verdict is false or
\* mostly_false, on the parse path and on the fallback path
Thm_C7_LieRule ==
    \A rec \in VerdictRecords :
        /\ rec.verdict \in validVerdicts
        /\ rec.confidence \in 0..ConfidenceMax
        /\ rec.is_lie <=> (rec.confidence >= LieThreshold
                            /\ rec.verdict \in {"false", "mostly_false"})

\* C7 witness: a mostly_false verdict at exactly 0.8 was recorded as a lie
Wit_C7_LieAtThreshold ==
    \E row \in fact_checks :
        row.is_lie /\ row.verdict = "mostly_false" /\ row.confidence = LieThreshold

\* the fact_checks row an alert references
AlertVerdicts(a) == {row \in fact_checks : row.id = a.fact_check_id}

\* the per-result task of runFactChecks that wrote a fact_checks row has
\* finished (its alert write, if any, has returned)
TaskSettled(row) ==
    LET r == row.turn_id[1]
        i == row.id[2]
    IN  (pc[r] = "fc_persist" /\ curTurn[r].id = row.turn_id) => fcTask[r][i] = "done"

\* C8: a persisted alert is critical exactly when its verdict's confidence is
\* >= 0.9 and warning otherwise; a false verdict at 0.85 is a lie, has no
\* alert but a warning one, and has that alert once its task has finished
\* with no store error returned; a mixed verdict at 0.85 is no lie and has
\* no alert
Thm_C8_Severity ==
    /\ \A a \in lie_alerts :
        /\ a.severity \in {"critical", "warning"}
        /\ \A row \in AlertVerdicts(a) :
            a.severity = "critical" <=> row.confidence >= CriticalThreshold
    /\ \A row \in fact_checks :
        /\ (row.verdict = "false" /\ row.confidence = 85) =>
                /\ row.is_lie
                /\ \A a \in lie_alerts : a.fact_check_id = row.id => a.severity = "warning"
                /\ (TaskSettled(row) /\ storeFaultsLeft = MaxStoreFaults) =>
                        \E a \in lie_alerts : a.fact_check_id = row.id
        /\ (row.verdict = "mixed" /\ row.confidence = 85) =>
                /\ ~row.is_lie
                /\ \A a \in lie_alerts : a.fact_check_id # row.id

\* C8 witness: a false verdict at 0.85 is persisted with a warning alert
Wit_C8_WarningAt85 ==
    \E row \in fact_checks, a \in lie_alerts :
        /\ row.verdict = "false"
        /\ row.confidence = 85
        /\ a.fact_check_id = row.id
        /\ a.severity = "warning"

\* C9: every persisted alert references a persisted verdict that is a lie,
\* and every persisted verdict references a persisted turn of its debate
Thm_C9_References ==
    /\ \A a \in lie_alerts :
        \E row \in fact_checks :
            row.id = a.fact_check_id /\ row.is_lie /\ row.debate_id = a.debate_id
    /\ \A row \in fact_checks :
        \E i \in 1..Len(debate_turns) :
            debate_turns[i].id = row.turn_id /\ debate_turns[i].debate_id = row.debate_id

\* C9 witness: an alert is persisted together with the lie verdict it
\* references and the turn that verdict references
Wit_C9_AlertWithVerdictAndTurn ==
    \E a \in lie_alerts, row \in fact_checks, i \in 1..Len(debate_turns) :
        /\ row.id = a.fact_check_id
        /\ row.is_lie
        /\ debate_turns[i].id = row.turn_id

\* C10: for a turn whose generated response carried no claims the verifier is
\* never called and no verdict and no alert is persisted
Thm_C10_NoClaimsNoVerification ==
    /\ verifierCalls \subseteq claimBearing
    /\ \A row \in fact_checks : row.turn_id \in claimBearing
    /\ \A a \in lie_alerts : a.fact_check_id[1] \in claimBearing

\* C10 witness: a turn without claims and a turn with claims are both
\* persisted, the verifier was called for the second, and the run went on
Wit_C10_ClaimlessTurnPersisted ==
    /\ verifierCalls # {}
    /\ \E i \in 1..Len(debate_turns) : debate_turns[i].id \notin claimBearing
    /\ \E r \in Requests : pc[r] = "vote_window"

\* C11: a research side whose lookup threw is fulfilled with the empty
\* bundle; the run leaves the research await only towards the live phase,
\* never to the catch clause, and its next status write sets live
Thm_C11_ResearchNeverAborts ==
    /\ [](\A r \in Requests, s \in Sides :
            research[r][s].threw =>
                research[r][s].state = "fulfilled" /\ research[r][s].sources = 0)
    /\ [][\A r \in Requests :
            /\ (pc[r] = "research" /\ pc'[r] # "research") => pc'[r] = "status_live"
            /\ (pc[r] = "status_live" /\ pc'[r] # "status_live") =>
                    (pc'[r] = "pair" /\ status = "researching" /\ status' = "live")]_vars

\* C11 witness: both lookups threw and the run is in the live phase, about
\* to generate its first pair
Wit_C11_LiveAfterBothLookupsThrew ==
    \E r \in Requests :
        /\ \A s \in Sides : research[r][s].threw
        /\ pc[r] = "pair"
        /\ status = "live"
        /\ ~failed[r]

Thm_C13_StartRejected ==
    /\ [](\A q \in Requests :
            reqSeen[q] \notin {"none", "setup"} =>
                /\ reqPc[q] = "400"
                /\ pc[q] = "none"
                /\ \A s \in Sides : research[q][s] = NoResearch)
    /\ [][\A q \in Requests :
            (reqPc[q] = "idle" /\ reqPc'[q] # "idle" /\ status # "setup") =>
                /\ reqPc'[q] \in {"400", "404"}
                /\ UNCHANGED <<storeVars, pc, research, documents>>]_vars

\* C13 witness: the debate is completed with its summary, and a second start
\* request has read that status and was rejected
Wit_C13_RejectedAfterCompleted ==
    /\ status = "completed"
    /\ debate_summaries = 1
    /\ pc[1] = "done"
    /\ reqSeen[2] = "completed"
    /\ reqPc[2] = "400"

\* a run is inside the claim verification of a turn it has persisted: the
\* verifier call or the writes of its verdicts and alerts are outstanding
VerificationInFlight(r) == pc[r] \in {"fc_call", "fc_persist"}

\* C14: when the persisted status changes from live to voting, no claim
\* verification of a persisted turn of the debate is still in flight
Orig_C14_VerificationDoneBeforeVoting ==
    [][(status = "live" /\ status' = "voting") =>
            \A r \in Requests : ~VerificationInFlight(r)]_vars

\* a step of a run of DebateOrchestrator.runDebate that was already started
OrchestratorStep(r) == pc[r] # "none" /\ pc'[r] # pc[r]

\* C15: after the debate is created, every change of the persisted status
\* is made by a step of the orchestrator
Orig_C15_StatusWrittenByOrchestrator ==
    [][status' # status => \E r \in Requests : OrchestratorStep(r)]_vars

\* C16: the step of the catch clause changes nothing but the debate's status
\* and description: turns, verdicts, alerts, the summary and the documents
\* stay as they were, and status and description are written together
Thm_C16_FailureKeepsRecords ==
    [][\A r \in Requests :
        (pc[r] = "catch" /\ pc'[r] # "catch") =>
            /\ UNCHANGED <<debate_turns, fact_checks, lie_alerts, debate_summaries,
                           documents, maxTurns, agentRoles>>
            /\ \/ status' = "completed" /\ description' = "[ERROR]"
               \/ UNCHANGED <<status, description>>]_vars

\* C16 witness: a run has taken the failure edge, and the turn, verdict and
\* alert it had persisted before are there
Wit_C16_FailedWithRecords ==
    \E r \in Requests :
        /\ pc[r] = "done"
        /\ failed[r]
        /\ status = "completed"
        /\ description = "[ERROR]"
        /\ Len(RunTurns(r)) > 0
        /\ \E row \in fact_checks, a \in lie_alerts :
            row.turn_id[1] = r /\ a.fact_check_id = row.id

\* C17: with maxTurns 2 or 3 every turn number <= 2 is an opening turn, the
\* first pair is generated in the concurrent branch (both generateTurn calls
\* made from the empty history, before either turn is persisted), and turns
\* 1 and 2 are persisted as opening turns
Thm_C17_OpeningPrecedence ==
    maxTurns \in {2, 3} =>
        /\ \A n \in 1..2 : getTurnType(n, maxTurns) = "intro"
        /\ \A r \in Requests :
            /\ (pairStart[r] = 1 /\ generated[r].pro.state # "none") =>
                    /\ generated[r].pro.turnType = "intro"
                    /\ generated[r].con.state # "none"
                    /\ generated[r].con.turnNumber = 2
                    /\ generated[r].con.turnType = "intro"
                    /\ generated[r].con.history = <<>>
                    /\ pc[r] # "gen_pro" /\ pc[r] # "gen_con"
            /\ \A i \in 1..Len(RunTurns(r)) :
                    RunTurns(r)[i].turn_number <= 2 => RunTurns(r)[i].turn_type = "intro"

\* C17 witness: with maxTurns 2 both openings are being generated at once
Wit_C17_PairGeneratedAtOnce ==
    \E r \in Requests :
        /\ maxTurns = 2
        /\ pc[r] = "gen_intro"
        /\ generated[r].pro.state = "running"
        /\ generated[r].con.state = "running"

\* position of the turn with a given id in debate_turns, 0 when not persisted
TurnIndex(id) ==
    IF \E i \in 1..Len(debate_turns) : debate_turns[i].id = id
    THEN CHOOSE i \in 1..Len(debate_turns) : debate_turns[i].id = id
    ELSE 0

\* C18: in an opening pair both generateTurn calls are made from the same
\* history, which does not contain the pro opening of the pair, whichever
\* call settles first; and a persisted con opening comes after its pro opening
Thm_C18_OpeningsIndependent ==
    \A r \in Requests :
        LET g == generated[r]
        IN  /\ (g.pro.turnType = "intro" /\ g.con.state # "none") =>
                    /\ g.con.turnType = "intro"
                    /\ g.con.history = g.pro.history
                    /\ \A j \in 1..Len(g.con.history) :
                            g.con.history[j] # <<r, g.pro.turnNumber>>
            /\ TurnIndex(<<r, 2>>) > 0 =>
                    /\ TurnIndex(<<r, 1>>) > 0
                    /\ TurnIndex(<<r, 1>>) < TurnIndex(<<r, 2>>)

\* C18 witness: the con opening's generation has settled while the pro
\* opening's generation is still running
Wit_C18_ConSettledFirst ==
    \E r \in Requests :
        /\ pc[r] = "gen_intro"
        /\ generated[r].con.state = "done"
        /\ generated[r].pro.state = "running"

\* the persisted turn of a run with a given number
RunTurn(r, n) == debate_turns[TurnIndex(<<r, n>>)]

\* C19: estimateDisplayTime is max(400 ms per word, 15000 ms), never below
\* 15 s and never decreasing from one word count to the next; every delay
\* awaited began with its pro turn persisted and lasts estimateDisplayTime
\* of that turn's text; and a con turn is persisted only after the delay of
\* its pair
Thm_C19_PacingDelay ==
    /\ \A w \in 0..MaxWords :
        /\ estimateDisplayTime(w) = Max(400 * w, 15000)
        /\ estimateDisplayTime(w) >= 15000
        /\ estimateDisplayTime(w) <= estimateDisplayTime(w + 1)
    /\ \A d \in delays :
        /\ d.after % 2 = 1
        /\ TurnIndex(<<d.run, d.after>>) > 0
        /\ RunTurn(d.run, d.after).agent_id = "pro"
        /\ d.ms = Max(400 * RunTurn(d.run, d.after).words, 15000)
    /\ \A r \in Requests, n \in 1..Len(debate_turns) :
        (n % 2 = 0 /\ TurnIndex(<<r, n>>) > 0) =>
            /\ \E d \in delays : d.run = r /\ d.after = n - 1
            /\ TurnIndex(<<r, n - 1>>) < TurnIndex(<<r, n>>)

\* C19 witness: turn 4 (con, sequential branch) is persisted after a delay at
\* the floor, and turn 2 (con, opening) after a delay above the floor
Wit_C19_DelaysAtAndAboveFloor ==
    \E r \in Requests :
        /\ TurnIndex(<<r, 4>>) > 0
        /\ [run |-> r, after |-> 3, ms |-> 15000] \in delays
        /\ [run |-> r, after |-> 1, ms |-> 15200] \in delays

\* C20: whenever the verifier's response to a non-empty claim list is
\* structurally unusable, checkClaims returns (it does not throw) exactly one
\* record per input claim, in order, each with verdict unverifiable,
\* confidence 0 and is_lie false
Orig_C20_FallbackPerClaim ==
    \A r \in Requests :
        LET y == verifierReply[r]
        IN  (y.given /\ y.unusable /\ Len(y.claims) > 0) =>
                /\ ~y.threw
                /\ Len(y.results) = Len(y.claims)
                /\ \A i \in 1..Len(y.claims) :
                    /\ y.results[i].claim_text = y.claims[i]
                    /\ y.results[i].verdict = "unverifiable"
                    /\ y.results[i].confidence = 0
                    /\ y.results[i].is_lie = FALSE

\* C21: once runFactChecks has returned for a turn (every per-result task
\* has ended), each verdict the verifier produced for the turn is a
\* fact_checks row, and each such verdict with is_lie has exactly one
\* lie_alerts row that references it
Orig_C21_VerdictsAndAlertsPersisted ==
    \A r \in Requests :
        (/\ pc[r] = "fc_persist"
         /\ \A i \in 1..Len(fcTask[r]) : fcTask[r][i] = "done") =>
            \A i \in 1..Len(fcResults[r]) :
                /\ FactCheckRow(r, i) \in fact_checks
                /\ fcResults[r][i].is_lie =>
                    Cardinality({a \in lie_alerts :
                                    a.fact_check_id = <<curTurn[r].id, i>>}) = 1

\* C22: a generation text that does not parse as the structured response does
\* not fail the turn: generateArgument returns (the run does not go to its
\* catch clause in that step) the raw text as the argument with no claims;
\* the turn is persisted with the raw text as its content, no verification
\* call is made for it, and a run that reaches the voting phase has persisted
\* it and the turn after it
Thm_C22_UnparsedTurnFallsBack ==
    /\ [](/\ \A id \in unparsed :
                /\ id \notin claimBearing
                /\ id \notin verifierCalls
                /\ \A s \in Sides :
                    generated[id[1]][s].turnNumber = id[2] =>
                        /\ generated[id[1]][s].state = "done"
                        /\ generated[id[1]][s].raw
                        /\ generated[id[1]][s].claims = <<>>
                /\ TurnIndex(id) > 0 => RunTurn(id[1], id[2]).raw
                /\ ReachedVoting(id[1]) =>
                    /\ TurnIndex(id) > 0
                    /\ id[2] < maxTurns => TurnIndex(<<id[1], id[2] + 1>>) > TurnIndex(id)
          /\ \A i \in 1..Len(debate_turns) :
                debate_turns[i].raw <=> debate_turns[i].id \in unparsed)
    /\ [][\A id \in unparsed' \ unparsed :
            pc'[id[1]] # "catch" /\ ~failed'[id[1]]]_vars

\* C22 witness: turn 1 of three came back unparsable, was persisted with the
\* raw text, and the debate went on through turns 2 and 3 to the voting phase
Wit_C22_RawTurnThenVoting ==
    /\ maxTurns = 3
    /\ <<1, 1>> \in unparsed
    /\ ReachedVoting(1)
    /\ Len(debate_turns) = 3
    /\ debate_turns[1].raw /\ ~debate_turns[2].raw
    /\ verifierCalls = {<<1, 2>>}

\* C23: when runDebate cannot load the debate or finds no pro or no con agent,
\* it goes to its catch clause with no research lookup started for the run
\* and no turn, verdict or summary written, and the catch clause writes
\* nothing but status completed with the error marker
Orig_C23_AbortBeforeResearch ==
    [][\A r \in Requests :
        /\ (pc[r] = "load" /\ pc'[r] = "catch") =>
            /\ \A s \in Sides : research'[r][s].state = "none"
            /\ \A s \in Sides : <<r, s>> \notin documents'
            /\ \A s \in Sides : generated'[r][s].state = "none"
            /\ RunTurns(r)' = <<>>
            /\ fact_checks' = {} /\ debate_summaries' = 0
        /\ (pc[r] = "catch" /\ pc'[r] = "done" /\ RunTurns(r) = <<>>
                /\ \A s \in Sides : generated[r][s].state = "none") =>
            /\ UNCHANGED <<debate_turns, fact_checks, lie_alerts, debate_summaries,
                           documents, maxTurns, agentRoles>>
            /\ \/ status' = "completed" /\ description' = "[ERROR]"
               \/ UNCHANGED <<status, description>>]_vars

\* C24: whatever the interleaving of the start requests of a debate, at most
\* one of them starts a run of runDebate, and no two persisted turns of the
\* debate have the same turn number
Orig_C24_OneRunPerDebate ==
    /\ Cardinality({q \in Requests : reqPc[q] = "started"}) <= 1
    /\ Cardinality({r \in Requests : pc[r] # "none"}) <= 1
    /\ \A i, j \in 1..Len(debate_turns) :
        i # j => debate_turns[i].turn_number # debate_turns[j].turn_number

\* C25: when a run hands its transcript and verdict list to generateSummary
\* (after the voting window), the transcript is the persisted turns of the
\* debate, maxTurns of them in turn-number order, and the verdict list is
\* exactly the persisted fact_checks rows: as many entries as rows, each row
\* with its entry
Orig_C25_SummaryInputIsPersisted ==
    \A r \in Requests :
        pc[r] = "summarize" =>
            /\ allTurns[r] = debate_turns
            /\ Len(allTurns[r]) = maxTurns
            /\ \A i \in 1..Len(allTurns[r]) : allTurns[r][i].turn_number = i
            /\ Len(allFactChecks[r]) = Cardinality(fact_checks)
            /\ \A row \in fact_checks :
                \E i \in 1..Len(allFactChecks[r]) :
                    /\ allFactChecks[r][i].claim_text = row.claim_text
                    /\ allFactChecks[r][i].verdict = row.verdict
                    /\ allFactChecks[r][i].confidence = row.confidence

\* the rows of debate_votes with a given (debate, voter session)
VoteRows(d, v) ==
    {row \in debate_votes : row.debate_id = d /\ row.voter_session_id = v}

\* C26: after any sequence of vote submissions each (debate, voter session)
\* that voted has exactly one row, holding the vote it submitted last, and a
\* session that did not vote has none; the tally of a debate counts each
\* such session once (pro_count + con_count is the number of sessions that
\* voted); a GET reports that tally; a submission of the vote already
\* recorded changes no row; a vote that is neither pro nor con, or a missing
\* field, is answered 400 and changes no row
Thm_C26_VoteIdempotent ==
    /\ [](\A d \in VoteDebates :
            /\ \A v \in VoterSessions :
                IF voteLog[d][v] = "none"
                THEN VoteRows(d, v) = {}
                ELSE /\ Cardinality(VoteRows(d, v)) = 1
                     /\ \A row \in VoteRows(d, v) : row.vote = voteLog[d][v]
            /\ VoteTally(d).pro_count =
                    Cardinality({v \in VoterSessions : voteLog[d][v] = "pro"})
            /\ VoteTally(d).con_count =
                    Cardinality({v \in VoterSessions : voteLog[d][v] = "con"})
            /\ VoteTally(d).pro_count + VoteTally(d).con_count =
                    Cardinality({v \in VoterSessions : voteLog[d][v] # "none"}))
    /\ [][/\ votesPosted' # votesPosted =>
                /\ voteResp'.vote \notin {"pro", "con"} => voteResp'.status = 400
                /\ voteResp'.voter_session_id = 0 => voteResp'.status = 400
                /\ voteResp'.status # 200 => debate_votes' = debate_votes
                /\ (/\ voteResp'.status = 200
                    /\ voteLog[voteResp'.debate_id][voteResp'.voter_session_id]
                            = voteResp'.vote) => debate_votes' = debate_votes
          /\ (voteResp'.op = "GET" /\ voteResp'.status = 200) =>
                /\ voteResp'.pro_count = VoteTally(voteResp'.debate_id).pro_count
                /\ voteResp'.con_count = VoteTally(voteResp'.debate_id).con_count
                /\ voteResp'.total = voteResp'.pro_count + voteResp'.con_count]_vars

\* C26 witness: session 1 voted pro and then con in debate d1 (its row is the
\* one its first vote created), session 2 voted pro, and a GET reported one
\* vote each
Wit_C26_ChangedVoteCountedOnce ==
    /\ votesPosted = 3
    /\ [id |-> 1, debate_id |-> "d1", voter_session_id |-> 1, vote |-> "con"] \in debate_votes
    /\ voteLog["d1"][2] = "pro"
    /\ voteResp.op = "GET" /\ voteResp.debate_id = "d1"
    /\ voteResp.pro_count = 1 /\ voteResp.con_count = 1 /\ voteResp.total = 2

\* C27: whatever notifications were delivered, and however often, the turns
\* state of useDebateRealtime holds no two entries with the same id
Thm_C27_NoDuplicateTurns ==
    \A i, j \in 1..Len(turnsState) : i # j => turnsState[i].id # turnsState[j].id

\* C27 witness: the notification of a row was delivered twice and the row is
\* in the turns state
Wit_C27_NotifiedTwice ==
    \E i \in 1..MaxHookTurns :
        /\ notifyCount[i] = 2
        /\ \E j \in 1..Len(turnsState) : turnsState[j].id = debate_turns[i].id

\* C28: once fetchInitialData has applied its result and the notification of
\* every row inserted since the subscription has been delivered, the turns
\* state holds every persisted turn of the debate, in ascending turn-number
\* order
Orig_C28_NoTurnLost ==
    (/\ hookPhase = "ready"
     /\ \A i \in 1..Len(debate_turns) : i > subscribedFrom => notifyCount[i] > 0) =>
        /\ \A i \in 1..Len(debate_turns) :
            \E j \in 1..Len(turnsState) : turnsState[j].id = debate_turns[i].id
        /\ \A j \in 1..Len(turnsState) - 1 :
            turnsState[j].turn_number < turnsState[j + 1].turn_number

\* C29: an alert shown as the active alert is cleared within 5 seconds unless
\* a newer alert replaces it, whatever alerts arrive and whichever alerts are
\* dismissed: the active alert is never older than 5 seconds
Orig_C29_ActiveAlertCleared ==
    activeAlert # 0 => activeAge <= AutoClearSeconds

\* C30: the audio queue is FIFO and plays one item at a time: the URLs that
\* became currentUrl are the first enqueued ones, each once and in enqueue
\* order; with the queue drained and nothing playing isPlaying is false and
\* currentUrl is null; and no item is dropped silently: the current URL gives
\* way only to a skip or to its own ended, error or rejected-play event
Orig_C30_FifoNoneDropped ==
    /\ [](/\ Len(currentLog) <= enqueued
          /\ \A i \in 1..Len(currentLog) : currentLog[i] = i
          /\ (queueRef = <<>> /\ ~isPlayingRef) => (~isPlaying /\ currentUrl = 0))
    /\ [][(currentUrl # 0 /\ currentUrl' # currentUrl) =>
            \/ audioEvent'.kind = "skip"
            \/ /\ audioEvent'.kind \in {"ended", "error", "rejected"}
               /\ audioEvent'.url = currentUrl]_vars

====
